---- MODULE Spec2Model ----
(***************************************************************************)
(* A model of src/filesystem/demo.py: a content-addressable blob store     *)
(* (ContentAddressableStorage), a single-leader metadata state machine     *)
(* with a Raft-like log (MetadataService) and the facade that composes     *)
(* them (DistributedFileSystem), driven by concurrent caller threads.      *)
(*                                                                         *)
(* A Python str is a sequence of one-character strings, a bytes object a   *)
(* sequence of byte values, an Optional a sequence of length at most one.  *)
(***************************************************************************)
EXTENDS Integers, Sequences, FiniteSets, TLC

\* ------------------------------------------------------------------ bounds

\* Total number of calls the caller threads make.
MaxCalls == 3

\* The caller threads.
Threads == {"t1", "t2"}
\* The paths callers pass: the root, an entry under it, and an entry under
\* that entry.
Paths == {<<"/">>, <<"/", "a">>, <<"/", "a", "/", "b">>}
\* The byte sequences callers store.
Contents == {<<>>, <<1>>}

NoThread == "none"

\* ------------------------------------------------------------ str helpers

\* ord(c) of the characters in use.
Ord(c) == IF c = "/" THEN 47 ELSE IF c = "a" THEN 97 ELSE 98

\* str.rstrip("/")
RECURSIVE rstrip(_)
rstrip(s) ==
    IF Len(s) > 0 /\ s[Len(s)] = "/" THEN rstrip(SubSeq(s, 1, Len(s) - 1)) ELSE s

\* str.split("/"): the list of the fields between the separators.
RECURSIVE split(_)
split(s) ==
    IF \E i \in 1..Len(s) : s[i] = "/"
    THEN LET i == CHOOSE k \in 1..Len(s) : s[k] = "/" /\ \A j \in 1..(k - 1) : s[j] # "/"
         IN  <<SubSeq(s, 1, i - 1)>> \o split(SubSeq(s, i + 1, Len(s)))
    ELSE <<s>>

\* "/".join(parts)
RECURSIVE join(_)
join(parts) ==
    IF Len(parts) = 0 THEN <<>>
    ELSE IF Len(parts) = 1 THEN parts[1]
    ELSE parts[1] \o <<"/">> \o join(Tail(parts))

\* a < b on str (lexicographic by code point)
RECURSIVE StrLess(_, _)
StrLess(a, b) ==
    IF Len(b) = 0 THEN FALSE
    ELSE IF Len(a) = 0 THEN TRUE
    ELSE IF Ord(a[1]) < Ord(b[1]) THEN TRUE
    ELSE IF Ord(a[1]) > Ord(b[1]) THEN FALSE
    ELSE StrLess(Tail(a), Tail(b))

\* hashlib.sha256(content).hexdigest(), tabulated for Contents.
sha256(content) ==
    IF content = <<>> THEN "e3b0c44298fc1c149afbf4c8996fb92427ae41e4649b934ca495991b7852b855"
    ELSE IF content = <<1>> THEN "4bf5122f344554c53bde2ebb8cd2b7e3d1600ad631c385a5d7cce23c7785459a"
    ELSE "6e340b9cffb37a989ca544e6bb780a2c78901d3fb33738768511a30617afa01d"

\* ------------------------------------------------------------ data model

\* FileMetadata
FileMetadata(path, content_hash, size, created_time, is_directory) ==
    [path |-> path, content_hash |-> content_hash, size |-> size,
     created_time |-> created_time, is_directory |-> is_directory]

\* Operation; metadata is an Optional[FileMetadata].
Operation(op_id, op_type, path, metadata, timestamp) ==
    [op_id |-> op_id, op_type |-> op_type, path |-> path,
     metadata |-> metadata, timestamp |-> timestamp]

\* RaftLogEntry.__init__
RaftLogEntry(term, operation) ==
    [term |-> term, operation |-> operation, committed |-> FALSE]

\* MetadataService._parent_directory
parent_directory(path) ==
    IF path = <<"/">> THEN <<"/">>
    ELSE LET parts == split(rstrip(path))
         IN  IF Len(parts) <= 1 THEN <<"/">>
             ELSE LET joined == join(SubSeq(parts, 1, Len(parts) - 1))
                  IN  IF joined = <<>> THEN <<"/">> ELSE joined

\* MetadataService._path_exists
path_exists(md, path) == path \in DOMAIN md

\* ------------------------------------------------- ContentAddressableStorage

\* store with its test inverted: the content is inserted only when its digest
\* is a key already.
store_inverted(st, content) ==
    LET content_hash == sha256(content)
    IN  IF content_hash \in DOMAIN st
        THEN [h \in DOMAIN st \cup {content_hash} |->
                 IF h = content_hash THEN content ELSE st[h]]
        ELSE st

\* store, the body of its critical section: insert unless the digest is a key.
store(st, content) ==
    LET content_hash == sha256(content)
    IN  IF content_hash \notin DOMAIN st
        THEN [h \in DOMAIN st \cup {content_hash} |->
                 IF h = content_hash THEN content ELSE st[h]]
        ELSE st

\* What a call returns: kind is "None", "bool", "bytes", "list" or "ValueError"
\* ("pending" while the call runs).
Result(kind, b, bytes, list) == [kind |-> kind, bool |-> b, bytes |-> bytes, list |-> list]
Pending == Result("pending", FALSE, <<>>, <<>>)
ReturnNone == Result("None", FALSE, <<>>, <<>>)
ReturnBool(b) == Result("bool", b, <<>>, <<>>)
ReturnBytes(c) == Result("bytes", FALSE, c, <<>>)
ReturnList(l) == Result("list", FALSE, <<>>, l)
RaiseValueError == Result("ValueError", FALSE, <<>>, <<>>)

\* retrieve without the integrity check.
retrieve_unverified(st, content_hash) ==
    IF content_hash \notin DOMAIN st THEN ReturnNone
    ELSE ReturnBytes(st[content_hash])

\* retrieve: None when absent, ValueError when the stored bytes do not hash to
\* the key, the bytes otherwise.
retrieve(st, content_hash) ==
    IF content_hash \notin DOMAIN st THEN ReturnNone
    ELSE IF sha256(st[content_hash]) # content_hash THEN RaiseValueError
    ELSE ReturnBytes(st[content_hash])

\* exists
exists(st, content_hash) == content_hash \in DOMAIN st

\* ----------------------------------------------------------- MetadataService

\* The namespace md with entry at path (self._metadata[path] = entry).
set_entry(md, path, entry) ==
    [p \in DOMAIN md \cup {path} |-> IF p = path THEN entry ELSE md[p]]

\* CREATE_FILE without the check that the file does not exist yet.
create_file_rejected_unless_parent(md, path) ==
    ~path_exists(md, parent_directory(path))

\* _apply_operation, CREATE_FILE: the two checks that return False.
create_file_rejected(md, path) ==
    \/ ~path_exists(md, parent_directory(path))
    \/ path_exists(md, path)

\* CREATE_DIR without its test that the path is not in the namespace yet.
create_dir_rejected_unless_parent(md, path) ==
    ~path_exists(md, parent_directory(path))

\* _apply_operation, CREATE_DIR: the two checks that return False.
create_dir_rejected(md, path) ==
    \/ ~path_exists(md, parent_directory(path))
    \/ path_exists(md, path)

\* DELETE that removes the entries under the path with it.
delete_entry_cascade(md, path) ==
    [p \in {q \in DOMAIN md :
               ~(Len(q) >= Len(path) /\ SubSeq(q, 1, Len(path)) = path)} |-> md[p]]

\* DELETE that leaves the entry in the namespace.
delete_entry_kept(md, path) == md

\* _apply_operation, DELETE: del self._metadata[operation.path]
delete_entry(md, path) == [p \in DOMAIN md \ {path} |-> md[p]]

\* _apply_operation on the namespace md: the return value and the namespace after.
apply_operation(md, operation) ==
    IF operation.op_type = "create_file" THEN
        IF create_file_rejected(md, operation.path)
        THEN [success |-> FALSE, metadata |-> md]
        ELSE [success |-> TRUE,
              metadata |-> set_entry(md, operation.path, operation.metadata[1])]
    ELSE IF operation.op_type = "create_dir" THEN
        IF create_dir_rejected(md, operation.path)
        THEN [success |-> FALSE, metadata |-> md]
        ELSE [success |-> TRUE,
              metadata |-> set_entry(md, operation.path,
                               FileMetadata(operation.path, "", 0, operation.timestamp, TRUE))]
    ELSE IF operation.op_type = "delete" THEN
        IF ~path_exists(md, operation.path)
        THEN [success |-> FALSE, metadata |-> md]
        ELSE [success |-> TRUE, metadata |-> delete_entry(md, operation.path)]
    ELSE [success |-> FALSE, metadata |-> md]

\* sorted(children, key=lambda x: x.path) of a set of entries with distinct paths.
RECURSIVE sorted(_)
sorted(children) ==
    IF children = {} THEN <<>>
    ELSE LET first == CHOOSE m \in children :
                          \A o \in children : o = m \/ StrLess(m.path, o.path)
         IN  <<first>> \o sorted(children \ {first})

\* list_directory without the file_path != path test of its loop.
list_directory_with_self(md, path) ==
    IF ~path_exists(md, path) THEN <<>>
    ELSE IF ~md[path].is_directory THEN <<>>
    ELSE sorted({md[file_path] : file_path \in
                    {f \in DOMAIN md : parent_directory(f) = path}})

\* MetadataService.list_directory, the body of its critical section.
list_directory(md, path) ==
    IF ~path_exists(md, path) THEN <<>>
    ELSE IF ~md[path].is_directory THEN <<>>
    ELSE sorted({md[file_path] : file_path \in
                    {f \in DOMAIN md : f # path /\ parent_directory(f) = path}})

\* MetadataService.get_file_metadata: an Optional[FileMetadata].
get_file_metadata(md, path) == IF path \in DOMAIN md THEN <<md[path]>> ELSE <<>>

\* ------------------------------------------------------ DistributedFileSystem

\* path.split('/')[-1]
name_of(path) == LET parts == split(path) IN parts[Len(parts)]

\* DistributedFileSystem.list_directory: the entry dicts of the listing.
entry_dict(entry) ==
    [name |-> name_of(entry.path), path |-> entry.path,
     type |-> IF entry.is_directory THEN "directory" ELSE "file",
     size |-> entry.size, created |-> entry.created_time]

fs_list_directory(md, path) ==
    LET entries == list_directory(md, path)
    IN  [i \in 1..Len(entries) |-> entry_dict(entries[i])]

\* DistributedFileSystem.read_file run with no other thread in between.
read_file(md, st, path) ==
    LET found == get_file_metadata(md, path)
    IN  IF found = <<>> THEN ReturnNone
        ELSE IF found[1].is_directory THEN ReturnNone
        ELSE retrieve(st, found[1].content_hash)

\* ---------------------------------------------------------------- the state

VARIABLES
    metadata,      \* MetadataService._metadata: path -> FileMetadata
    log,           \* MetadataService._log: the RaftLogEntry list
    commit_index,  \* MetadataService._commit_index
    is_leader,     \* MetadataService.is_leader
    current_term,  \* MetadataService.current_term
    meta_lock,     \* the holder of MetadataService._lock
    storage,       \* ContentAddressableStorage._storage: digest -> bytes
    store_lock,    \* the holder of ContentAddressableStorage._lock
    pc,            \* where each thread stands in its call
    frame,         \* each thread's call: function, arguments, locals, result
    calls,         \* the calls made so far
    clock          \* what time.time() returns next

vars == <<metadata, log, commit_index, is_leader, current_term, meta_lock,
          storage, store_lock, pc, frame, calls, clock>>

meta_vars == <<metadata, log, commit_index, is_leader, current_term, meta_lock>>
store_vars == <<storage, store_lock>>

\* A thread's frame. call is the number of the call, which stands for the uuid4
\* of its Operation. operation and pre are Optionals; pre is the namespace, the
\* log and the commit index as propose_operation found them on taking the lock.
Frame(call, func, path, content, content_hash, size) ==
    [call |-> call, func |-> func, path |-> path, content |-> content,
     content_hash |-> content_hash, size |-> size,
     operation |-> <<>>, success |-> FALSE, pre |-> <<>>, result |-> Pending]

NoCall == Frame(0, "none", <<>>, <<>>, "", 0)

\* MetadataService.__init__ and ContentAddressableStorage.__init__
Init ==
    /\ metadata = [p \in {<<"/">>} |-> FileMetadata(<<"/">>, "", 0, 0, TRUE)]
    /\ log = <<>>
    /\ commit_index = -1
    /\ is_leader = TRUE
    /\ current_term = 1
    /\ meta_lock = NoThread
    /\ storage = [h \in {} |-> <<>>]
    /\ store_lock = NoThread
    /\ pc = [t \in Threads |-> "idle"]
    /\ frame = [t \in Threads |-> NoCall]
    /\ calls = 0
    /\ clock = 1

\* The call returns: its locals go, its arguments and result stay for the caller.
Return(t, result) ==
    /\ pc' = [pc EXCEPT ![t] = "idle"]
    /\ frame' = [frame EXCEPT ![t].result = result, ![t].operation = <<>>,
                              ![t].pre = <<>>, ![t].success = FALSE]

\* propose_operation without its test of is_leader.
Propose_unchecked(t, fr, operation) ==
    /\ pc' = [pc EXCEPT ![t] = "propose"]
    /\ frame' = [frame EXCEPT ![t] = [fr EXCEPT !.operation = <<operation>>]]

\* propose_operation up to its lock: a non-leader returns False at once.
Propose(t, fr, operation) ==
    IF ~is_leader
    THEN /\ pc' = [pc EXCEPT ![t] = "idle"]
         /\ frame' = [frame EXCEPT ![t] = [fr EXCEPT !.result = ReturnBool(FALSE)]]
    ELSE /\ pc' = [pc EXCEPT ![t] = "propose"]
         /\ frame' = [frame EXCEPT ![t] = [fr EXCEPT !.operation = <<operation>>]]

\* ------------------------------------------------------------------ the calls

\* DistributedFileSystem.create_file(path, content) is called; store hashes the
\* content and comes to its lock.
call_create_file(t, path, content) ==
    /\ pc[t] = "idle" /\ calls < MaxCalls
    /\ calls' = calls + 1
    /\ pc' = [pc EXCEPT ![t] = "store"]
    /\ frame' = [frame EXCEPT ![t] = Frame(calls + 1, "create_file", path, content, sha256(content), Len(content))]
    /\ UNCHANGED <<meta_vars, store_vars, clock>>

\* store takes the lock.
store_acquire(t) ==
    /\ pc[t] = "store" /\ store_lock = NoThread
    /\ store_lock' = t
    /\ pc' = [pc EXCEPT ![t] = "store_locked"]
    /\ UNCHANGED <<meta_vars, storage, frame, calls, clock>>

\* store that returns the digest without having inserted the content.
store_step_skipped(t) ==
    /\ pc[t] = "store_locked" /\ store_lock = t
    /\ store_lock' = NoThread
    /\ pc' = [pc EXCEPT ![t] = "ms_create_file"]
    /\ UNCHANGED <<meta_vars, storage, frame, calls, clock>>

\* store inserts the content unless its digest is a key, releases the lock and
\* returns the digest.
store_step(t) ==
    /\ pc[t] = "store_locked" /\ store_lock = t
    /\ storage' = store(storage, frame[t].content)
    /\ store_lock' = NoThread
    /\ pc' = [pc EXCEPT ![t] = "ms_create_file"]
    /\ UNCHANGED <<meta_vars, frame, calls, clock>>

\* MetadataService.create_file builds the Operation and proposes it.
ms_create_file(t) ==
    /\ pc[t] = "ms_create_file"
    /\ LET fr == frame[t]
           op == Operation(fr.call, "create_file", fr.path,
                           <<FileMetadata(fr.path, fr.content_hash, fr.size, clock, FALSE)>>,
                           clock + 1)
       IN  Propose(t, fr, op)
    /\ clock' = clock + 2
    /\ UNCHANGED <<meta_vars, store_vars, calls>>

\* DistributedFileSystem.create_directory(path): MetadataService.create_directory
\* builds the Operation and proposes it.
call_create_directory(t, path) ==
    /\ pc[t] = "idle" /\ calls < MaxCalls
    /\ calls' = calls + 1
    /\ Propose(t, Frame(calls + 1, "create_directory", path, <<>>, "", 0),
               Operation(calls + 1, "create_dir", path, <<>>, clock))
    /\ clock' = clock + 1
    /\ UNCHANGED <<meta_vars, store_vars>>

\* propose_operation(Operation(op_id, OperationType.DELETE, path)): the only
\* way to a deletion.
call_delete(t, path) ==
    /\ pc[t] = "idle" /\ calls < MaxCalls
    /\ calls' = calls + 1
    /\ Propose(t, Frame(calls + 1, "delete", path, <<>>, "", 0),
               Operation(calls + 1, "delete", path, <<>>, 0))
    /\ UNCHANGED <<meta_vars, store_vars, clock>>

\* propose_operation takes the lock and appends the log entry.
propose_append(t) ==
    /\ pc[t] = "propose" /\ meta_lock = NoThread
    /\ meta_lock' = t
    /\ log' = Append(log, RaftLogEntry(current_term, frame[t].operation[1]))
    /\ frame' = [frame EXCEPT ![t].pre =
                    <<[metadata |-> metadata, log |-> log, commit_index |-> commit_index]>>]
    /\ pc' = [pc EXCEPT ![t] = "apply"]
    /\ UNCHANGED <<metadata, commit_index, is_leader, current_term, store_vars, calls, clock>>

\* success = self._apply_operation(operation)
propose_apply(t) ==
    /\ pc[t] = "apply" /\ meta_lock = t
    /\ LET applied == apply_operation(metadata, frame[t].operation[1])
       IN  /\ metadata' = applied.metadata
           /\ frame' = [frame EXCEPT ![t].success = applied.success]
    /\ pc' = [pc EXCEPT ![t] = "finalize"]
    /\ UNCHANGED <<log, commit_index, is_leader, current_term, meta_lock, store_vars, calls, clock>>

\* propose_operation that leaves the entry of a failed operation in the log.
propose_finalize_kept(t) ==
    /\ pc[t] = "finalize" /\ meta_lock = t
    /\ IF frame[t].success
       THEN /\ log' = [log EXCEPT ![Len(log)].committed = TRUE]
            /\ commit_index' = Len(log) - 1
       ELSE UNCHANGED <<log, commit_index>>
    /\ meta_lock' = NoThread
    /\ Return(t, ReturnBool(frame[t].success))
    /\ UNCHANGED <<metadata, is_leader, current_term, store_vars, calls, clock>>

\* propose_operation that sets the commit index to the length of the log.
propose_finalize_off_by_one(t) ==
    /\ pc[t] = "finalize" /\ meta_lock = t
    /\ IF frame[t].success
       THEN /\ log' = [log EXCEPT ![Len(log)].committed = TRUE]
            /\ commit_index' = Len(log)
       ELSE /\ log' = SubSeq(log, 1, Len(log) - 1)
            /\ UNCHANGED commit_index
    /\ meta_lock' = NoThread
    /\ Return(t, ReturnBool(frame[t].success))
    /\ UNCHANGED <<metadata, is_leader, current_term, store_vars, calls, clock>>

\* propose_operation that pops the entry whether or not it was applied.
propose_finalize_popped(t) ==
    /\ pc[t] = "finalize" /\ meta_lock = t
    /\ log' = SubSeq(log, 1, Len(log) - 1)
    /\ UNCHANGED commit_index
    /\ meta_lock' = NoThread
    /\ Return(t, ReturnBool(frame[t].success))
    /\ UNCHANGED <<metadata, is_leader, current_term, store_vars, calls, clock>>

\* The entry is committed or popped, the lock released and success returned (the
\* facade returns what the metadata service returned).
propose_finalize(t) ==
    /\ pc[t] = "finalize" /\ meta_lock = t
    /\ IF frame[t].success
       THEN /\ log' = [log EXCEPT ![Len(log)].committed = TRUE]
            /\ commit_index' = Len(log) - 1
       ELSE /\ log' = SubSeq(log, 1, Len(log) - 1)
            /\ UNCHANGED commit_index
    /\ meta_lock' = NoThread
    /\ Return(t, ReturnBool(frame[t].success))
    /\ UNCHANGED <<metadata, is_leader, current_term, store_vars, calls, clock>>

\* DistributedFileSystem.read_file(path) is called and comes to the metadata lock.
call_read_file(t, path) ==
    /\ pc[t] = "idle" /\ calls < MaxCalls
    /\ calls' = calls + 1
    /\ pc' = [pc EXCEPT ![t] = "get_metadata"]
    /\ frame' = [frame EXCEPT ![t] = Frame(calls + 1, "read_file", path, <<>>, "", 0)]
    /\ UNCHANGED <<meta_vars, store_vars, clock>>

\* get_file_metadata that reads the namespace without taking the lock.
read_get_metadata_unlocked(t) ==
    /\ pc[t] = "get_metadata"
    /\ LET found == get_file_metadata(metadata, frame[t].path)
       IN  IF found = <<>> \/ found[1].is_directory
           THEN Return(t, ReturnNone)
           ELSE /\ pc' = [pc EXCEPT ![t] = "retrieve"]
                /\ frame' = [frame EXCEPT ![t].content_hash = found[1].content_hash]
    /\ UNCHANGED <<meta_vars, store_vars, calls, clock>>

\* read_file's get_file_metadata: None for a missing path or a directory.
read_get_metadata(t) ==
    /\ pc[t] = "get_metadata" /\ meta_lock = NoThread
    /\ LET found == get_file_metadata(metadata, frame[t].path)
       IN  IF found = <<>> \/ found[1].is_directory
           THEN Return(t, ReturnNone)
           ELSE /\ pc' = [pc EXCEPT ![t] = "retrieve"]
                /\ frame' = [frame EXCEPT ![t].content_hash = found[1].content_hash]
    /\ UNCHANGED <<meta_vars, store_vars, calls, clock>>

\* read_file's retrieve and its return.
read_retrieve(t) ==
    /\ pc[t] = "retrieve" /\ store_lock = NoThread
    /\ Return(t, retrieve(storage, frame[t].content_hash))
    /\ UNCHANGED <<meta_vars, store_vars, calls, clock>>

\* DistributedFileSystem.list_directory(path) is called and comes to the lock.
call_list_directory(t, path) ==
    /\ pc[t] = "idle" /\ calls < MaxCalls
    /\ calls' = calls + 1
    /\ pc' = [pc EXCEPT ![t] = "list_directory"]
    /\ frame' = [frame EXCEPT ![t] = Frame(calls + 1, "list_directory", path, <<>>, "", 0)]
    /\ UNCHANGED <<meta_vars, store_vars, clock>>

\* The listing under the lock, and the facade's entry dicts.
list_step(t) ==
    /\ pc[t] = "list_directory" /\ meta_lock = NoThread
    /\ Return(t, ReturnList(fs_list_directory(metadata, frame[t].path)))
    /\ UNCHANGED <<meta_vars, store_vars, calls, clock>>

Next ==
    \E t \in Threads :
        \/ \E path \in Paths, content \in Contents : call_create_file(t, path, content)
        \/ store_acquire(t)
        \/ store_step(t)
        \/ ms_create_file(t)
        \/ \E path \in Paths : call_create_directory(t, path)
        \/ \E path \in Paths : call_delete(t, path)
        \/ propose_append(t)
        \/ propose_apply(t)
        \/ propose_finalize(t)
        \/ \E path \in Paths : call_read_file(t, path)
        \/ read_get_metadata(t)
        \/ read_retrieve(t)
        \/ \E path \in Paths : call_list_directory(t, path)
        \/ list_step(t)

Spec == Init /\ [][Next]_vars

\* The (content_hash, size) pairs a caller of MetadataService.create_file
\* passes: the empty hash, and the digest of a stored content.
MetaArgs == {<<"", 0>>, <<sha256(<<1>>), 1>>}

\* MetadataService.create_file(path, content_hash, size) called by itself, not
\* through the facade.
call_ms_create_file(t, path, content_hash, size) ==
    /\ pc[t] = "idle" /\ calls < MaxCalls
    /\ calls' = calls + 1
    /\ pc' = [pc EXCEPT ![t] = "ms_create_file"]
    /\ frame' = [frame EXCEPT ![t] = Frame(calls + 1, "ms_create_file", path, <<>>, content_hash, size)]
    /\ UNCHANGED <<meta_vars, store_vars, clock>>

NextMeta ==
    \/ Next
    \/ \E t \in Threads, path \in Paths, args \in MetaArgs :
           call_ms_create_file(t, path, args[1], args[2])

\* The callers of the facade and of the metadata service.
SpecMeta == Init /\ [][NextMeta]_vars

\* The bytes under a key are replaced, behind the store's back, by bytes of
\* another digest.
corrupt(content_hash, content) ==
    /\ content_hash \in DOMAIN storage
    /\ sha256(content) # content_hash
    /\ storage' = [storage EXCEPT ![content_hash] = content]
    /\ UNCHANGED <<meta_vars, store_lock, pc, frame, calls, clock>>

\* The calls that reach the content store (create_file stores, read_file
\* retrieves), and the corruption of what it holds.
NextCorrupt ==
    \/ \E t \in Threads :
           \/ \E path \in Paths, content \in Contents : call_create_file(t, path, content)
           \/ store_acquire(t)
           \/ store_step(t)
           \/ ms_create_file(t)
           \/ propose_append(t)
           \/ propose_apply(t)
           \/ propose_finalize(t)
           \/ \E path \in Paths : call_read_file(t, path)
           \/ read_get_metadata(t)
           \/ read_retrieve(t)
    \/ \E content_hash \in DOMAIN storage, content \in Contents : corrupt(content_hash, content)

\* The callers of create_file and read_file, with a storage layer that corrupts
\* what it holds.
SpecCorrupt == Init /\ [][NextCorrupt]_vars

\* The paths of the callers that fill and list directories: two siblings under
\* the root and a grandchild.
ListPaths == {<<"/">>, <<"/", "a">>, <<"/", "b">>, <<"/", "a", "/", "b">>}

NextList ==
    \E t \in Threads :
        \/ \E path \in ListPaths : call_create_file(t, path, <<1>>)
        \/ store_acquire(t)
        \/ store_step(t)
        \/ ms_create_file(t)
        \/ \E path \in ListPaths : call_create_directory(t, path)
        \/ propose_append(t)
        \/ propose_apply(t)
        \/ propose_finalize(t)
        \/ \E path \in ListPaths : call_list_directory(t, path)
        \/ list_step(t)

\* The callers of create_file, create_directory and list_directory.
SpecList == Init /\ [][NextList]_vars

\* The owner of the MetadataService sets is_leader, the attribute that
\* propose_operation reads before it takes the lock.
set_leader(b) ==
    /\ is_leader # b
    /\ is_leader' = b
    /\ UNCHANGED <<metadata, log, commit_index, current_term, meta_lock,
                   store_vars, pc, frame, calls, clock>>

NextLeader ==
    \/ \E t \in Threads :
           \/ \E path \in Paths : call_create_file(t, path, <<1>>)
           \/ store_acquire(t)
           \/ store_step(t)
           \/ ms_create_file(t)
           \/ \E path \in Paths : call_create_directory(t, path)
           \/ \E path \in Paths : call_delete(t, path)
           \/ propose_append(t)
           \/ propose_apply(t)
           \/ propose_finalize(t)
    \/ \E b \in BOOLEAN : set_leader(b)

\* The callers that propose operations, on a service that loses and regains
\* leadership.
SpecLeader == Init /\ [][NextLeader]_vars

\* A caller proposes again the DELETE Operation it holds: propose_operation
\* takes any Operation, and the caller of a DELETE builds its own.
propose_again(t) ==
    /\ pc[t] = "idle" /\ frame[t].func = "delete"
    /\ Propose(t, Frame(frame[t].call, "delete", frame[t].path, <<>>, "", 0),
               Operation(frame[t].call, "delete", frame[t].path, <<>>, 0))
    /\ UNCHANGED <<meta_vars, store_vars, calls, clock>>

\* The steps of thread t between its call and its return.
Step(t) ==
    \/ store_acquire(t)
    \/ store_step(t)
    \/ ms_create_file(t)
    \/ propose_append(t)
    \/ propose_apply(t)
    \/ propose_finalize(t)
    \/ read_get_metadata(t)
    \/ read_retrieve(t)

NextLive ==
    \E t \in Threads :
        \/ \E path \in Paths : call_create_file(t, path, <<1>>)
        \/ \E path \in Paths : call_delete(t, path)
        \/ \E path \in Paths : call_read_file(t, path)
        \/ propose_again(t)
        \/ Step(t)

\* The scheduler runs a thread that can take a step; threading.Lock and
\* threading.RLock do not say which of the threads that wait for a released lock
\* gets it, so a thread at a lock is owed a step only while the lock stays free.
SpecLive == Init /\ [][NextLive]_vars /\ \A t \in Threads : WF_vars(Step(t))

NextRead ==
    \E t \in Threads :
        \/ \E path \in Paths : call_create_file(t, path, <<1>>)
        \/ \E path \in Paths : call_create_directory(t, path)
        \/ \E path \in Paths : call_delete(t, path)
        \/ \E path \in Paths : call_read_file(t, path)
        \/ \E path \in Paths : call_list_directory(t, path)
        \/ Step(t)
        \/ list_step(t)

\* The callers of every operation, readers among writers, all files of one
\* content.
SpecRead == Init /\ [][NextRead]_vars

\* ------------------------------------------------------------------ claims

Root == <<"/">>

\* Thread t has applied its operation and is at propose_finalize.
Finalizing(t) == pc[t] = "finalize" /\ meta_lock = t
FinalizingOp(t) == frame[t].operation[1]

\* C1: whenever no proposal is inside its critical section, every namespace
\* entry other than the root has a parent path, as _parent_directory computes
\* it, that is in the namespace and is a directory.
C1_HierarchyInvariant ==
    meta_lock = NoThread =>
        \A p \in DOMAIN metadata :
            p # Root =>
                /\ parent_directory(p) \in DOMAIN metadata
                /\ metadata[parent_directory(p)].is_directory

\* C2: in the state create_file(path, bytes) returns True in, read_file(path)
\* returns exactly bytes and list_directory(parent of path) has an entry whose
\* path is path.
C2_ReadAfterWrite ==
    [][\A t \in Threads :
          (/\ Finalizing(t)
           /\ frame[t].func = "create_file"
           /\ frame'[t].result = ReturnBool(TRUE))
          => LET path == frame[t].path
                 listing == fs_list_directory(metadata', parent_directory(path))
             IN  /\ read_file(metadata', storage', path) = ReturnBytes(frame[t].content)
                 /\ \E i \in DOMAIN listing : listing[i].path = path]_vars

\* C3: every entry of the namespace that is not a directory has a content_hash
\* that is a key of the content store.
C3_NoDanglingHash ==
    \A p \in DOMAIN metadata :
        ~metadata[p].is_directory => metadata[p].content_hash \in DOMAIN storage

\* C3's case: a file is committed while another create_file is under way.
C3_Witness ==
    \E p \in DOMAIN metadata, t \in Threads :
        /\ ~metadata[p].is_directory
        /\ frame[t].func = "create_file"
        /\ pc[t] \in {"store", "store_locked", "ms_create_file", "propose", "apply"}

\* Thread t takes the step propose_finalize.
Finalizes(t) == Finalizing(t) /\ pc'[t] = "idle"
\* What propose_operation found on taking the lock.
Pre(t) == frame[t].pre[1]
IsCreate(op) == op.op_type \in {"create_file", "create_dir"}

\* C4: a CREATE_FILE or CREATE_DIR whose path is in the namespace returns False
\* and leaves the namespace, the log and the commit index as they were.
C4_NoDuplicatePath ==
    [][\A t \in Threads :
          (/\ Finalizes(t)
           /\ IsCreate(FinalizingOp(t))
           /\ frame[t].path \in DOMAIN Pre(t).metadata)
          => /\ frame'[t].result = ReturnBool(FALSE)
             /\ metadata' = Pre(t).metadata
             /\ log' = Pre(t).log
             /\ commit_index' = Pre(t).commit_index]_vars

\* C4's case: a create of an occupied path, whose parent is there, has been
\* applied.
C4_Witness ==
    \E t \in Threads :
        /\ Finalizing(t)
        /\ IsCreate(FinalizingOp(t))
        /\ frame[t].path \in DOMAIN Pre(t).metadata
        /\ parent_directory(frame[t].path) \in DOMAIN Pre(t).metadata
        /\ ~frame[t].success

\* C5: a create whose parent path is not in the namespace returns False, leaves
\* the namespace, the log and the commit index as they were, and
\* get_file_metadata of its path is absent afterwards.
C5_MissingParentRejected ==
    [][\A t \in Threads :
          (/\ Finalizes(t)
           /\ IsCreate(FinalizingOp(t))
           /\ parent_directory(frame[t].path) \notin DOMAIN Pre(t).metadata)
          => /\ frame'[t].result = ReturnBool(FALSE)
             /\ metadata' = Pre(t).metadata
             /\ log' = Pre(t).log
             /\ commit_index' = Pre(t).commit_index
             /\ get_file_metadata(metadata', frame[t].path) = <<>>]_vars

\* C6: the namespace holds "/", a directory, in every state, and no DELETE of
\* "/" returns True.
C6_RootPermanent ==
    /\ Root \in DOMAIN metadata
    /\ metadata[Root].is_directory
    /\ \A t \in Threads :
          ~(frame[t].func = "delete" /\ frame[t].path = Root
            /\ frame[t].result = ReturnBool(TRUE))

\* C7: in the state a DELETE of p returns True in, get_file_metadata(p) is
\* absent and list_directory(parent of p) has no entry whose path is p.
C7_DeletionRemovesListing ==
    [][\A t \in Threads :
          (/\ Finalizes(t)
           /\ FinalizingOp(t).op_type = "delete"
           /\ frame'[t].result = ReturnBool(TRUE))
          => LET p == frame[t].path
                 listing == list_directory(metadata', parent_directory(p))
             IN  /\ get_file_metadata(metadata', p) = <<>>
                 /\ \A i \in DOMAIN listing : listing[i].path # p]_vars

\* C7's case: a DELETE of an entry of a directory has returned True.
C7_Witness ==
    \E t \in Threads :
        /\ pc[t] = "idle"
        /\ frame[t].func = "delete"
        /\ frame[t].result = ReturnBool(TRUE)
        /\ frame[t].path # Root
        /\ frame[t].path \notin DOMAIN metadata
        /\ parent_directory(frame[t].path) \in DOMAIN metadata
        /\ metadata[parent_directory(frame[t].path)].is_directory

\* C8: store returns the digest of the content, which depends on the content
\* alone; it adds the one entry digest -> content when the digest is no key and
\* leaves the storage map as it is when it is one; and a create_file succeeds
\* whether or not its content was stored before (it returns True exactly when
\* the parent is there and the path is free), its entry referencing the digest
\* of its content.
C8_DedupIdempotence ==
    [][\A t \in Threads :
          LET h == sha256(frame[t].content)
          IN  /\ (pc[t] = "store_locked" /\ pc'[t] = "ms_create_file")
                 => /\ frame'[t].content_hash = h
                    /\ (h \in DOMAIN storage => storage' = storage)
                    /\ DOMAIN storage' = DOMAIN storage \cup {h}
                    /\ storage'[h] = frame[t].content
              /\ (Finalizes(t) /\ frame[t].func = "create_file")
                 => /\ frame'[t].result =
                          ReturnBool(/\ parent_directory(frame[t].path) \in DOMAIN Pre(t).metadata
                                     /\ frame[t].path \notin DOMAIN Pre(t).metadata)
                    /\ frame[t].success
                          => /\ metadata'[frame[t].path].content_hash = h
                             /\ h \in DOMAIN storage']_vars

\* C8's case: two concurrent create_file calls have both stored the same
\* content, and the store holds one entry.
C8_Witness ==
    \E t, u \in Threads :
        /\ t # u
        /\ frame[t].func = "create_file" /\ frame[u].func = "create_file"
        /\ frame[t].content = frame[u].content
        /\ pc[t] = "ms_create_file" /\ pc[u] = "ms_create_file"
        /\ DOMAIN storage = {sha256(frame[t].content)}

\* The stored bytes no longer hash to their key.
Corrupted(content_hash) ==
    content_hash \in DOMAIN storage /\ sha256(storage[content_hash]) # content_hash

\* C9: retrieve of a key whose bytes were replaced by bytes of another digest
\* ends in the ValueError, and retrieve returns bytes only when their digest is
\* the key (of every key, and of the key read_file retrieves).
C9_IntegrityDetection ==
    [][/\ \A content_hash \in DOMAIN storage :
             /\ Corrupted(content_hash)
                   => retrieve(storage, content_hash) = RaiseValueError
             /\ retrieve(storage, content_hash).kind = "bytes"
                   => sha256(retrieve(storage, content_hash).bytes) = content_hash
       /\ \A t \in Threads :
             (pc[t] = "retrieve" /\ pc'[t] = "idle")
             => /\ Corrupted(frame[t].content_hash)
                      => frame'[t].result = RaiseValueError
                /\ frame'[t].result.kind = "bytes"
                      => sha256(frame'[t].result.bytes) = frame[t].content_hash]_vars

\* C9's case: read_file has retrieved a key whose bytes are corrupted.
C9_Witness ==
    \E t \in Threads :
        /\ pc[t] = "idle"
        /\ frame[t].func = "read_file"
        /\ frame[t].result = RaiseValueError
        /\ Corrupted(frame[t].content_hash)

\* C10: of every namespace entry, content_hash is "" exactly when is_directory
\* is true.
C10_KindHashCoupling ==
    \A p \in DOMAIN metadata :
        (metadata[p].content_hash = "") <=> metadata[p].is_directory

\* Thread t is at the step of read_file that retrieves the content.
Retrieves(t) == pc[t] = "retrieve" /\ pc'[t] = "idle"

\* C11: when read_file reaches a file entry of the namespace whose content_hash
\* is not a key of the content store, what it returns differs from what
\* read_file returns for that path when the path is not in the namespace.
C11_MissingContentDistinct ==
    [][\A t \in Threads :
          (/\ Retrieves(t)
           /\ frame[t].content_hash \notin DOMAIN storage)
          => frame'[t].result #
                 read_file(delete_entry(metadata, frame[t].path), storage, frame[t].path)]_vars

\* Thread t is at the step of list_directory that reads the namespace.
Lists(t) == pc[t] = "list_directory" /\ pc'[t] = "idle"

\* The entries a listing of path is to hold.
Children(md, path) ==
    IF path \in DOMAIN md /\ md[path].is_directory
    THEN {f \in DOMAIN md : f # path /\ parent_directory(f) = path}
    ELSE {}

\* C12: list_directory(path) returns exactly the namespace entries other than
\* path whose _parent_directory is path, each once, in ascending order of
\* their paths, and returns the empty list when path is absent or is not a
\* directory.
C12_ListingExact ==
    [][\A t \in Threads :
          Lists(t) =>
              LET path == frame[t].path
                  entries == list_directory(metadata, path)
                  listing == frame'[t].result.list
              IN  /\ {entries[i].path : i \in DOMAIN entries} = Children(metadata, path)
                  /\ \A i \in DOMAIN entries : entries[i] = metadata[entries[i].path]
                  /\ \A i, j \in DOMAIN entries :
                         i < j => StrLess(entries[i].path, entries[j].path)
                  /\ frame'[t].result.kind = "list"
                  /\ Len(listing) = Len(entries)
                  /\ \A i \in DOMAIN listing : listing[i] = entry_dict(entries[i])]_vars

\* C12's case: a listing of two entries has been returned.
C12_Witness ==
    \E t \in Threads :
        /\ pc[t] = "idle" /\ frame[t].func = "list_directory"
        /\ Len(frame[t].result.list) = 2

\* Thread t is at the step in which propose_operation tests is_leader.
Proposes(t) ==
    \/ pc[t] = "ms_create_file" /\ pc'[t] # "ms_create_file"
    \/ /\ pc[t] = "idle"
       /\ frame'[t] # frame[t]
       /\ frame'[t].func \in {"create_directory", "delete"}

\* C13: a proposal (create_file, create_directory or DELETE) that finds
\* is_leader false returns False at once, and the log, the commit index and the
\* namespace are as before.
C13_NotLeaderRejected ==
    [][\A t \in Threads :
          (Proposes(t) /\ ~is_leader)
          => /\ pc'[t] = "idle"
             /\ frame'[t].result = ReturnBool(FALSE)
             /\ UNCHANGED <<log, commit_index, metadata>>]_vars

\* C13's case: a non-leader has refused the deletion of a path that is in the
\* namespace.
C13_Witness ==
    \E t \in Threads :
        /\ ~is_leader
        /\ pc[t] = "idle" /\ frame[t].func = "delete"
        /\ frame[t].path \in DOMAIN metadata
        /\ frame[t].result = ReturnBool(FALSE)

\* The calls that end in propose_operation.
Proposals == {"create_file", "create_directory", "delete"}

\* Thread t is at the step in which propose_operation returns False for want of
\* leadership.
Refused(t) == Proposes(t) /\ pc'[t] = "idle"

LogCommitted == \A i \in DOMAIN log : log[i].committed

\* The proposal that thread t has last returned from is in the log.
Logged(t) == \E i \in DOMAIN log : log[i].operation.op_id = frame[t].call

\* C14: whenever no thread is inside propose_operation's critical section every
\* log entry is committed and the log holds one entry for each proposal that
\* has returned True and none for one that has returned False: the log is
\* empty at first, a proposal that returns True has added its entry to the log
\* it found, a proposal that returns False leaves the log it found, and no
\* other step changes the log outside the critical section.
C14_LogOnlySucceeded ==
    [][/\ meta_lock' = NoThread =>
              /\ LogCommitted'
              /\ \A i, j \in DOMAIN log' :
                     log'[i].operation.op_id = log'[j].operation.op_id => i = j
              /\ \A t \in Threads :
                     (pc'[t] = "idle" /\ frame'[t].func \in Proposals)
                     => (Logged(t)' <=> frame'[t].result = ReturnBool(TRUE))
       /\ (meta_lock = NoThread /\ meta_lock' = NoThread) => log' = log
       /\ \A t \in Threads :
              /\ (Finalizes(t) /\ frame'[t].result = ReturnBool(TRUE))
                 => log' = Append(Pre(t).log,
                                  [RaftLogEntry(current_term, FinalizingOp(t))
                                       EXCEPT !.committed = TRUE])
              /\ (Finalizes(t) /\ frame'[t].result = ReturnBool(FALSE))
                 => log' = Pre(t).log
              /\ Refused(t) => log' = log]_vars

\* C14's case: with nobody in the critical section, one thread has returned
\* False from a proposal and the other True, and the log holds one entry.
C14_Witness ==
    \E t, u \in Threads :
        /\ meta_lock = NoThread
        /\ pc[t] = "idle" /\ frame[t].func \in Proposals
        /\ frame[t].result = ReturnBool(FALSE)
        /\ pc[u] = "idle" /\ frame[u].func \in Proposals
        /\ frame[u].result = ReturnBool(TRUE)
        /\ Len(log) = 1

\* C15: the commit index starts at -1 and never decreases; a proposal that
\* returns True advances it by exactly one, to the index of its entry; a
\* proposal that returns False leaves it; and whenever no thread is inside the
\* critical section it is the length of the log minus one.
C15_CommitIndexMonotone ==
    [][/\ commit_index' >= commit_index
       /\ meta_lock = NoThread => commit_index = Len(log) - 1
       /\ meta_lock' = NoThread => commit_index' = Len(log') - 1
       /\ \A t \in Threads :
              /\ (Finalizes(t) /\ frame'[t].result = ReturnBool(TRUE))
                 => /\ commit_index' = Pre(t).commit_index + 1
                    /\ log'[commit_index' + 1].operation = FinalizingOp(t)
              /\ (Finalizes(t) /\ frame'[t].result = ReturnBool(FALSE))
                 => commit_index' = Pre(t).commit_index
              /\ Refused(t) => commit_index' = commit_index]_vars

\* C15's case: two proposals have returned True, the commit index is 1, and
\* the last proposal of a thread has returned False.
C15_Witness ==
    \E t \in Threads :
        /\ meta_lock = NoThread
        /\ commit_index = 1
        /\ pc[t] = "idle" /\ frame[t].func \in Proposals
        /\ frame[t].result = ReturnBool(FALSE)

\* Thread t is at the step of read_file that calls get_file_metadata.
GetsMetadata(t) == pc[t] = "get_metadata" /\ pc'[t] # "get_metadata"

\* The entry was put in the namespace by an operation whose log entry is
\* committed.
InsertedByCommitted(entry) ==
    \E i \in DOMAIN log :
        /\ log[i].committed
        /\ log[i].operation.path = entry.path
        /\ \/ /\ log[i].operation.op_type = "create_file"
              /\ log[i].operation.metadata = <<entry>>
           \/ /\ log[i].operation.op_type = "create_dir"
              /\ entry = FileMetadata(entry.path, "", 0, log[i].operation.timestamp, TRUE)

\* The entries that the read thread t is making returns.
ReadEntries(t) ==
    IF GetsMetadata(t)
    THEN LET found == get_file_metadata(metadata, frame[t].path)
         IN  {found[i] : i \in DOMAIN found}
    ELSE LET entries == list_directory(metadata, frame[t].path)
         IN  {entries[i] : i \in DOMAIN entries}

\* C16 as the claim states it: a read by get_file_metadata or list_directory is
\* made with no log entry appended and not yet committed or popped, and every
\* entry it returns was inserted by an operation whose log entry is committed.
C16_ReadsCommittedOnly ==
    [][\A t \in Threads :
          (GetsMetadata(t) \/ Lists(t))
          => /\ LogCommitted
             /\ \A entry \in ReadEntries(t) : InsertedByCommitted(entry)]_vars

\* C16, amended: a read by get_file_metadata or list_directory is made with no
\* log entry appended and not yet committed or popped, and every entry it
\* returns other than the root, which __init__ inserts with no operation, was
\* inserted by an operation whose log entry is committed.
C16_ReadsCommittedOrRoot ==
    [][\A t \in Threads :
          (GetsMetadata(t) \/ Lists(t))
          => /\ LogCommitted
             /\ \A entry \in ReadEntries(t) :
                    entry.path # Root => InsertedByCommitted(entry)]_vars

\* C16's case: read_file has found a file entry and returned its bytes while
\* the other thread is between its call and its return.
C16_Witness ==
    \E t, u \in Threads :
        /\ pc[t] = "idle" /\ frame[t].func = "read_file"
        /\ frame[t].result.kind = "bytes"
        /\ pc[u] # "idle"

\* Thread t takes a step of the propose_operation of a DELETE.
DeleteStep(t) ==
    /\ frame[t].func = "delete"
    /\ pc[t] \in {"propose", "apply", "finalize"}
    /\ pc'[t] # pc[t]

\* C17: a DELETE of path that returns True removes the entry of path and no
\* other: every other entry of the namespace the proposal found, the entries
\* under path among them, is there unchanged, and no step of the DELETE changes
\* the content store.
C17_DeleteExactlyOne ==
    [][\A t \in Threads :
          /\ (/\ Finalizes(t)
              /\ frame[t].func = "delete"
              /\ frame'[t].result = ReturnBool(TRUE))
             => /\ frame[t].path \in DOMAIN Pre(t).metadata
                /\ DOMAIN metadata' = DOMAIN Pre(t).metadata \ {frame[t].path}
                /\ \A p \in DOMAIN metadata' : metadata'[p] = Pre(t).metadata[p]
          /\ DeleteStep(t) => storage' = storage]_vars

\* C17's case: the DELETE of a directory has returned True, an entry under the
\* directory is still in the namespace, and the content store holds a blob.
C17_Witness ==
    \E t \in Threads, p \in DOMAIN metadata :
        /\ pc[t] = "idle" /\ frame[t].func = "delete"
        /\ frame[t].result = ReturnBool(TRUE)
        /\ p # frame[t].path
        /\ parent_directory(p) = frame[t].path
        /\ DOMAIN storage # {}

Creates == {"create_file", "create_directory"}

\* Thread u has been called and has not taken the metadata lock yet.
Waiting(u) == pc[u] \in {"store", "store_locked", "ms_create_file", "propose"}

\* The namespace entry that a create operation inserts.
EntryOf(operation) ==
    IF operation.op_type = "create_file"
    THEN operation.metadata[1]
    ELSE FileMetadata(operation.path, "", 0, operation.timestamp, TRUE)

\* C18: of two threads whose create proposals for one path are under way
\* together, the path being absent and its parent present, exactly one returns
\* True: the first into the critical section returns True and its metadata is
\* the entry of the path; the other, whose critical section follows that
\* commit, returns False and leaves the entry of the first.
C18_ConcurrentCreateOneWinner ==
    [][\A t, u \in Threads :
          (/\ t # u
           /\ frame[t].func \in Creates /\ frame[u].func \in Creates
           /\ frame[t].path = frame[u].path)
          => /\ (/\ Finalizes(t)
                 /\ Waiting(u)
                 /\ frame[t].path \notin DOMAIN Pre(t).metadata
                 /\ parent_directory(frame[t].path) \in DOMAIN Pre(t).metadata)
                => /\ frame'[t].result = ReturnBool(TRUE)
                   /\ frame[t].path \in DOMAIN metadata'
                   /\ metadata'[frame[t].path] = EntryOf(FinalizingOp(t))
             /\ (/\ Finalizes(u)
                 /\ pc[t] = "idle"
                 /\ frame[t].result = ReturnBool(TRUE)
                 /\ Pre(u).log # <<>>
                 /\ Pre(u).log[Len(Pre(u).log)].operation.op_id = frame[t].call)
                => /\ frame'[u].result = ReturnBool(FALSE)
                   /\ metadata' = Pre(u).metadata
                   /\ frame[u].path \in DOMAIN metadata'
                   /\ metadata'[frame[u].path] =
                          EntryOf(Pre(u).log[Len(Pre(u).log)].operation)]_vars

\* C18's case: the only two calls made are creates of one path; the thread
\* called second has returned True and its entry is in the namespace, and the
\* thread called first is in its critical section with False to return.
C18_Witness ==
    \E t, u \in Threads :
        /\ calls = 2
        /\ frame[t].func \in Creates /\ frame[u].func \in Creates
        /\ frame[t].path = frame[u].path
        /\ frame[u].call = 1 /\ frame[t].call = 2
        /\ pc[t] = "idle" /\ frame[t].result = ReturnBool(TRUE)
        /\ Finalizing(u) /\ ~frame[u].success
        /\ frame[t].path \in DOMAIN metadata
        /\ metadata[frame[t].path] = EntryOf(log[1].operation)
        /\ log[1].operation.op_id = 2

\* The namespace MetadataService.__init__ builds: the root directory alone.
InitialNamespace == [p \in {Root} |-> FileMetadata(Root, "", 0, 0, TRUE)]

\* _apply_operation run on the operations of the entries, in order, from the
\* namespace md: whether every one returned True, and the namespace reached.
RECURSIVE Replay(_, _)
Replay(md, entries) ==
    IF entries = <<>> THEN [success |-> TRUE, metadata |-> md]
    ELSE LET applied == apply_operation(md, entries[1].operation)
             rest == Replay(applied.metadata, Tail(entries))
         IN  [success |-> applied.success /\ rest.success, metadata |-> rest.metadata]

\* C19: whenever no thread is inside the critical section, applying the
\* operations of the log in order with _apply_operation to the initial
\* namespace returns True at every step and ends in the current namespace.
C19_LogReplay ==
    meta_lock = NoThread =>
        LET replayed == Replay(InitialNamespace, log)
        IN  /\ replayed.success
            /\ replayed.metadata = metadata

\* C19's case: the log holds a create and a DELETE, and a proposal has returned
\* False.
C19_Witness ==
    /\ meta_lock = NoThread
    /\ Len(log) = 2
    /\ log[1].operation.op_type \in {"create_file", "create_dir"}
    /\ log[2].operation.op_type = "delete"
    /\ \E t \in Threads :
           /\ pc[t] = "idle" /\ frame[t].func \in Proposals
           /\ frame[t].result = ReturnBool(FALSE)

\* Thread t waits for one of the two locks with the other in its hands.
WaitsHolding(t) ==
    \/ pc[t] \in {"propose", "get_metadata", "list_directory"} /\ store_lock = t
    \/ pc[t] \in {"store", "retrieve"} /\ meta_lock = t

\* C20: every operation that is invoked returns, and no thread waits for the
\* metadata lock or the store lock while it holds the other.
C20_NoStarvation ==
    /\ \A t \in Threads : (pc[t] # "idle") ~> (pc[t] = "idle")
    /\ [](\A t \in Threads : ~WaitsHolding(t))

====
